---- MODULE Spec2Model ----
(***************************************************************************)
(* Model of pm/jira_sync.py: sync_epics_to_jira and sync_backlog_to_jira   *)
(* read a CSV file with csv.DictReader, walk the rows, fabricate a ticket  *)
(* key for every row without a JiraTicketID, stamp it on the row, and,     *)
(* when dry_run is false, write the rows back with csv.DictWriter.         *)
(*                                                                         *)
(* A Python str is modelled as the sequence of its pieces: ids and ticket  *)
(* keys are spelled character by character (str.replace works on them),    *)
(* column names and free text are one piece.  Python's None is the         *)
(* one-piece sequence None, which is no str of the model.                  *)
(* A dict is the sequence of its <<key, value>> items in insertion order.  *)
(* A file is the sequence of its rows, a row the sequence of its cells.    *)
(***************************************************************************)
EXTENDS Integers, Sequences, FiniteSets, TLC

\* ---------------------------------------------------------------- bounds
MaxRows == 2
MaxRuns == 2

\* ------------------------------------------------------- python values
None == <<"<None>">>
EmptyStr == <<>>

\* bool(v) for a str or None
Truthy(v) == v # None /\ v # EmptyStr

\* column names used by the two functions
JiraTicketID == <<"JiraTicketID">>
EpicID == <<"EpicID">>
Title == <<"Title">>
SubtaskID == <<"SubtaskID">>
SubtaskDescription == <<"SubtaskDescription">>

Kinds == {"epic", "backlog"}

IdCol(k) == IF k = "epic" THEN EpicID ELSE SubtaskID
TextCol(k) == IF k = "epic" THEN Title ELSE SubtaskDescription

\* ------------------------------------------------------------ dict ops
RECURSIVE Find(_, _, _)
\* index of key k in dict d at or after position p, 0 when absent
Find(d, k, p) ==
    IF p > Len(d) THEN 0
    ELSE IF d[p][1] = k THEN p
    ELSE Find(d, k, p + 1)

Has(d, k) == Find(d, k, 1) # 0

\* d.get(k, default)
GetOr(d, k, default) == IF Has(d, k) THEN d[Find(d, k, 1)][2] ELSE default

\* d.get(k)
Get(d, k) == GetOr(d, k, None)

\* d[k] = v that adds an item even when the key is there already
SetItemAppend(d, k, v) == Append(d, <<k, v>>)

\* d[k] = v : replaces the value in place, or appends a new item
SetItem(d, k, v) ==
    IF Has(d, k)
    THEN [d EXCEPT ![Find(d, k, 1)] = <<k, v>>]
    ELSE Append(d, <<k, v>>)

\* list(d.keys())
Keys(d) == [p \in 1..Len(d) |-> d[p][1]]

\* ------------------------------------------------------- csv.DictReader
\* one row zipped with the fieldnames: missing cells become None (restval),
\* surplus cells are collected in a list under the key None (restkey)
RowDict(fieldnames, row) ==
    LET lf == Len(fieldnames)
        lr == Len(row)
        base == [p \in 1..lf |->
                    <<fieldnames[p], IF p <= lr THEN row[p] ELSE None>>]
    IN  IF lr > lf THEN Append(base, <<None, SubSeq(row, lf + 1, lr)>>)
        ELSE base

\* list(csv.DictReader(infile)): the first row is the header, blank rows
\* are skipped, an empty file yields no rows
DictReaderList(f) ==
    IF Len(f) = 0 THEN <<>>
    ELSE LET rows == SelectSeq(Tail(f), LAMBDA r : r # <<>>)
         IN  [p \in 1..Len(rows) |-> RowDict(f[1], rows[p])]

\* read_csv_data with the failure of open and of decoding swallowed
CanReadAnything(st) == TRUE

\* read_csv_data raises instead of returning when the file cannot be
\* opened (FileNotFoundError) or decoded as UTF-8 (UnicodeDecodeError)
CanRead(st) == st = "ok"

ReadError(st) == IF st = "missing" THEN "FileNotFoundError" ELSE "UnicodeDecodeError"

\* ------------------------------------------------------- csv.DictWriter
RECURSIVE JoinList(_)
\* the inside of str(list_of_str): 'a', 'b'
JoinList(l) ==
    IF Len(l) = 0 THEN <<>>
    ELSE <<"'">> \o l[1] \o <<"'">> \o
         (IF Len(l) > 1 THEN <<",", " ">> \o JoinList(Tail(l)) ELSE <<>>)

\* the cell the csv writer emits for the value under key k: None is written
\* as the empty string, the restkey list by its str()
Cell(k, v) ==
    IF k = None THEN <<"[">> \o JoinList(v) \o <<"]">>
    ELSE IF v = None THEN EmptyStr
    ELSE v

\* writeheader(): the header dict maps every fieldname to itself
HeaderRow(fieldnames) ==
    [p \in 1..Len(fieldnames) |->
        IF fieldnames[p] = None THEN EmptyStr ELSE fieldnames[p]]

\* extrasaction='raise': a row with a key outside fieldnames is refused
WrongFields(d, fieldnames) ==
    \E p \in 1..Len(d) : \A q \in 1..Len(fieldnames) : fieldnames[q] # d[p][1]

\* _dict_to_list: one cell per fieldname, '' for a missing key
DictToList(d, fieldnames) ==
    [p \in 1..Len(fieldnames) |->
        IF Has(d, fieldnames[p])
        THEN Cell(fieldnames[p], Get(d, fieldnames[p]))
        ELSE EmptyStr]

\* ------------------------------------------------ simulated ticket keys
RECURSIVE Replace(_, _, _)
\* s.replace(old, new) for a one-character old
Replace(s, old, new) ==
    IF Len(s) = 0 THEN <<>>
    ELSE (IF s[1] = old THEN new ELSE <<s[1]>>) \o Replace(Tail(s), old, new)

FER == <<"F", "E", "R", "-">>

\* f"FER-{epic['EpicID'].replace('E', '10')}"
EpicKey(id) == FER \o Replace(id, "E", <<"1", "0">>)

\* f"FER-{item['SubtaskID'].replace('T', '').replace('.', '0')}"
BacklogKey(id) == FER \o Replace(Replace(id, "T", <<>>), ".", <<"0">>)

NewJiraKey(k, id) == IF k = "epic" THEN EpicKey(id) ELSE BacklogKey(id)

\* ------------------------------------------------------- the loop body
\* the exception the loop body raises on row d before it reaches the skip
\* or the key, "" when it raises none: the messages index the text column
\* (the backlog one also slices it), the key indexes the id column and
\* calls replace on it
BodyError(k, d) ==
    IF ~Has(d, TextCol(k)) THEN "KeyError"
    ELSE IF k = "backlog" /\ Get(d, TextCol(k)) = None THEN "TypeError"
    ELSE IF Truthy(Get(d, JiraTicketID)) THEN ""
    ELSE IF ~Has(d, IdCol(k)) THEN "KeyError"
    ELSE IF Get(d, IdCol(k)) = None THEN "AttributeError"
    ELSE ""

\* if epic.get("JiraTicketID"): ... continue
Skips(k, d) == BodyError(k, d) = "" /\ Truthy(Get(d, JiraTicketID))

\* the loop body without its "already has a Jira ID" test
CreatesAlways(k, d) == BodyError(k, d) = ""

Creates(k, d) == BodyError(k, d) = "" /\ ~Truthy(Get(d, JiraTicketID))

\* the loop body with the assignment of the key left out
StampNothing(d, key) == d

\* epic["JiraTicketID"] = new_jira_key
Stamp(d, key) == SetItem(d, JiraTicketID, key)

RECURSIVE Pass(_, _, _, _)
\* the whole for loop over lst from row p on, with what it has printed so
\* far: the rows as it leaves them, its printout, and the exception that
\* ended it ("" when it ran out of rows)
Pass(k, lst, p, printed) ==
    IF p > Len(lst) THEN [data |-> lst, out |-> printed, err |-> ""]
    ELSE IF BodyError(k, lst[p]) # ""
        THEN [data |-> lst, out |-> printed, err |-> BodyError(k, lst[p])]
    ELSE IF Skips(k, lst[p])
        THEN Pass(k, lst, p + 1,
                  Append(printed, <<"SKIP", Get(lst[p], JiraTicketID)>>))
    ELSE LET key == NewJiraKey(k, Get(lst[p], IdCol(k)))
         IN  Pass(k, [lst EXCEPT ![p] = Stamp(lst[p], key)], p + 1,
                  Append(printed, <<"CREATE", key>>))

\* a loop that stops one row early
LoopExhaustedEarly(idx, lst) == idx >= Len(lst)

\* the for loop has run out of rows
LoopExhausted(idx, lst) == idx > Len(lst)

\* the write-back without its dry_run test
WritesBackAlways(dr) == TRUE

\* if not dry_run:
WritesBack(dr) == ~dr

\* --------------------------------------------------------------- state
VARIABLES
    JIRA_API_TOKEN, \* os.environ.get("JIRA_API_TOKEN"), None when unset
    prev,        \* the run before this one wrote the file and returned
    kind,        \* which of the two functions this source belongs to
    fstat,       \* "ok", "missing" or "undecodable": the file at file_path
    file,        \* the rows of the file at file_path
    pc,          \* position of the running function
    dry_run,     \* its argument
    data,        \* epics_data / backlog_data
    i,           \* the row the for loop is at
    fieldnames,  \* update_csv_data's fieldnames
    j,           \* the row writerows is at
    err,         \* the exception that ended the run, "" when none
    out,         \* what the run has printed per row: <<"SKIP"|"CREATE", key>>
    tickets,     \* every key fabricated so far: [run, pos, id, key]
    run,         \* number of runs started
    saves,       \* calls of update_csv_data in this run
    loaded,      \* the list read_csv_data returned to this run
    file0,       \* the rows of the file when this run started
    fstat0       \* the state of the file when this run started

vars == <<JIRA_API_TOKEN, prev,
          kind, fstat, file, pc, dry_run, data, i, fieldnames, j, err, out,
          tickets, run, saves, loaded, file0, fstat0>>

\* ---------------------------------------------------------- the inputs
E1 == <<"E", "1">>
E2 == <<"E", "2">>
T11 == <<"T", "1", ".", "1">>
T12 == <<"T", "1", ".", "2">>
FER999 == <<"F", "E", "R", "-", "9", "9", "9">>

\* the values a cell of a column takes
Cells(col) ==
    IF col = EpicID THEN {E1, E2}
    ELSE IF col = SubtaskID THEN {T11, T12}
    ELSE IF col = JiraTicketID THEN {EmptyStr, FER999}
    ELSE {<<"Login flow">>}

\* the column orders of the source: ticket column last, id column last, or
\* text column last
Headers(k) == { <<IdCol(k), TextCol(k), JiraTicketID>>,
                <<TextCol(k), JiraTicketID, IdCol(k)>>,
                <<JiraTicketID, IdCol(k), TextCol(k)>> }

\* rows under a header: complete, one cell short, or one cell long
FullRows(h) == {r \in [1..Len(h) -> UNION {Cells(h[p]) : p \in 1..Len(h)}] :
                    \A p \in 1..Len(h) : r[p] \in Cells(h[p])}

RawRows(h) ==
    FullRows(h)
    \cup {SubSeq(r, 1, Len(h) - 1) : r \in FullRows(h)}
    \cup {Append(r, <<"x">>) : r \in FullRows(h)}

RowSeqs(h) == UNION {[1..n -> RawRows(h)] : n \in 0..MaxRows}

\* what os.environ.get("JIRA_API_TOKEN") gives: None when the variable is
\* unset
Environments == {None, <<"secret">>}

\* the state after import, in an environment of env
InitIn(env) ==
    /\ JIRA_API_TOKEN \in env
    /\ prev = FALSE
    /\ kind \in Kinds
    /\ \/ /\ fstat = "ok"
          /\ \E h \in Headers(kind) : \E rows \in RowSeqs(h) : file = <<h>> \o rows
       \/ /\ fstat \in {"ok", "missing", "undecodable"}
          /\ file = <<>>
    /\ pc = "idle"
    /\ dry_run = TRUE
    /\ data = <<>>
    /\ i = 1
    /\ fieldnames = <<>>
    /\ j = 1
    /\ err = ""
    /\ out = <<>>
    /\ tickets = <<>>
    /\ run = 0
    /\ saves = 0
    /\ loaded = <<>>
    /\ file0 = file
    /\ fstat0 = fstat

\* the credential is set
Init == InitIn({<<"secret">>})

\* the credential is set or not
EnvInit == InitIn(Environments)

\* ------------------------------------------------------------- actions
Raise(e) == pc' = "raised" /\ err' = e

\* sync_*_to_jira(dry_run=dr) is called and read_csv_data returns
Run(dr) ==
    /\ pc \in {"idle", "done", "raised"}
    /\ run < MaxRuns
    /\ CanRead(fstat)
    /\ run' = run + 1
    /\ dry_run' = dr
    /\ data' = DictReaderList(file)
    /\ loaded' = data'
    /\ i' = 1
    /\ j' = 1
    /\ fieldnames' = <<>>
    /\ err' = ""
    /\ out' = <<>>
    /\ saves' = 0
    /\ file0' = file
    /\ fstat0' = fstat
    /\ pc' = "loop"
    /\ prev' = (pc = "done" /\ ~dry_run)
    /\ UNCHANGED <<JIRA_API_TOKEN, kind, fstat, file, tickets>>

\* sync_*_to_jira(dry_run=dr) is called and read_csv_data raises
RunLoadFails(dr) ==
    /\ pc \in {"idle", "done", "raised"}
    /\ run < MaxRuns
    /\ ~CanRead(fstat)
    /\ run' = run + 1
    /\ dry_run' = dr
    /\ data' = <<>>
    /\ loaded' = <<>>
    /\ i' = 1
    /\ j' = 1
    /\ fieldnames' = <<>>
    /\ out' = <<>>
    /\ saves' = 0
    /\ file0' = file
    /\ fstat0' = fstat
    /\ Raise(ReadError(fstat))
    /\ prev' = (pc = "done" /\ ~dry_run)
    /\ UNCHANGED <<JIRA_API_TOKEN, kind, fstat, file, tickets>>

\* one turn of the for loop on a row that already has a ticket id
SkipRow ==
    /\ pc = "loop"
    /\ ~LoopExhausted(i, data)
    /\ Skips(kind, data[i])
    /\ out' = Append(out, <<"SKIP", Get(data[i], JiraTicketID)>>)
    /\ i' = i + 1
    /\ UNCHANGED <<JIRA_API_TOKEN, prev,
                   kind, fstat, file, pc, dry_run, data, fieldnames, j, err,
                   tickets, run, saves, loaded, file0, fstat0>>

\* one turn of the for loop on a row without a ticket id
CreateRow ==
    /\ pc = "loop"
    /\ ~LoopExhausted(i, data)
    /\ Creates(kind, data[i])
    /\ LET id == Get(data[i], IdCol(kind))
           key == NewJiraKey(kind, id)
       IN  /\ tickets' = Append(tickets,
                                [run |-> run, pos |-> i, id |-> id, key |-> key])
           /\ out' = Append(out, <<"CREATE", key>>)
           /\ data' = [data EXCEPT ![i] = Stamp(data[i], key)]
    /\ i' = i + 1
    /\ UNCHANGED <<JIRA_API_TOKEN, prev,
                   kind, fstat, file, pc, dry_run, fieldnames, j, err,
                   run, saves, loaded, file0, fstat0>>

\* one turn of the for loop that raises: nothing catches it
RowRaises ==
    /\ pc = "loop"
    /\ ~LoopExhausted(i, data)
    /\ BodyError(kind, data[i]) # ""
    /\ Raise(BodyError(kind, data[i]))
    /\ UNCHANGED <<JIRA_API_TOKEN, prev,
                   kind, fstat, file, dry_run, data, i, fieldnames, j, out,
                   tickets, run, saves, loaded, file0, fstat0>>

\* the loop is over and dry_run is true: "Sync Complete"
FinishDryRun ==
    /\ pc = "loop"
    /\ LoopExhausted(i, data)
    /\ ~WritesBack(dry_run)
    /\ pc' = "done"
    /\ UNCHANGED <<JIRA_API_TOKEN, prev,
                   kind, fstat, file, dry_run, data, i, fieldnames, j, err,
                   out, tickets, run, saves, loaded, file0, fstat0>>

\* the loop is over, dry_run is false, and data[0] does not exist
CommitEmptyRaises ==
    /\ pc = "loop"
    /\ LoopExhausted(i, data)
    /\ WritesBack(dry_run)
    /\ Len(data) = 0
    /\ Raise("IndexError")
    /\ UNCHANGED <<JIRA_API_TOKEN, prev,
                   kind, fstat, file, dry_run, data, i, fieldnames, j, out,
                   tickets, run, saves, loaded, file0, fstat0>>

\* the loop is over and dry_run is false: update_csv_data is called with
\* the keys of the first row as fieldnames
CallUpdate ==
    /\ pc = "loop"
    /\ LoopExhausted(i, data)
    /\ WritesBack(dry_run)
    /\ Len(data) > 0
    /\ fieldnames' = Keys(data[1])
    /\ saves' = saves + 1
    /\ j' = 1
    /\ pc' = "open"
    /\ UNCHANGED <<JIRA_API_TOKEN, prev,
                   kind, fstat, file, dry_run, data, i, err, out, tickets,
                   run, loaded, file0, fstat0>>

\* open(file_path, mode='w') truncates the file
SaveOpen ==
    /\ pc = "open"
    /\ file' = <<>>
    /\ fstat' = "ok"
    /\ pc' = "header"
    /\ UNCHANGED <<JIRA_API_TOKEN, prev,
                   kind, dry_run, data, i, fieldnames, j, err, out, tickets,
                   run, saves, loaded, file0, fstat0>>

\* open(file_path, mode='w') raises OSError and leaves the file alone
SaveOpenFails ==
    /\ pc = "open"
    /\ Raise("OSError")
    /\ UNCHANGED <<JIRA_API_TOKEN, prev,
                   kind, fstat, file, dry_run, data, i, fieldnames, j, out,
                   tickets, run, saves, loaded, file0, fstat0>>

\* writer.writeheader()
WriteHeader ==
    /\ pc = "header"
    /\ file' = <<HeaderRow(fieldnames)>>
    /\ pc' = "rows"
    /\ UNCHANGED <<JIRA_API_TOKEN, prev,
                   kind, fstat, dry_run, data, i, fieldnames, j, err, out,
                   tickets, run, saves, loaded, file0, fstat0>>

\* writer.writerows(data), one row
WriteRow ==
    /\ pc = "rows"
    /\ j <= Len(data)
    /\ ~WrongFields(data[j], fieldnames)
    /\ file' = Append(file, DictToList(data[j], fieldnames))
    /\ j' = j + 1
    /\ UNCHANGED <<JIRA_API_TOKEN, prev,
                   kind, fstat, pc, dry_run, data, i, fieldnames, err, out,
                   tickets, run, saves, loaded, file0, fstat0>>

\* writer.writerows(data) reaches a row with a key outside fieldnames
WriteRowRaises ==
    /\ pc = "rows"
    /\ j <= Len(data)
    /\ WrongFields(data[j], fieldnames)
    /\ Raise("ValueError")
    /\ UNCHANGED <<JIRA_API_TOKEN, prev,
                   kind, fstat, file, dry_run, data, i, fieldnames, j, out,
                   tickets, run, saves, loaded, file0, fstat0>>

\* a write raises OSError, or the process is stopped, with the file as far
\* as it has been written
WriteFails ==
    /\ pc \in {"header", "rows"}
    /\ Raise("OSError")
    /\ UNCHANGED <<JIRA_API_TOKEN, prev,
                   kind, fstat, file, dry_run, data, i, fieldnames, j, out,
                   tickets, run, saves, loaded, file0, fstat0>>

\* update_csv_data returns: "Successfully updated", "Sync Complete"
SaveReturn ==
    /\ pc = "rows"
    /\ j > Len(data)
    /\ pc' = "done"
    /\ UNCHANGED <<JIRA_API_TOKEN, prev,
                   kind, fstat, file, dry_run, data, i, fieldnames, j, err,
                   out, tickets, run, saves, loaded, file0, fstat0>>

Next ==
    \/ \E dr \in BOOLEAN : Run(dr)
    \/ \E dr \in BOOLEAN : RunLoadFails(dr)
    \/ SkipRow
    \/ CreateRow
    \/ RowRaises
    \/ FinishDryRun
    \/ CommitEmptyRaises
    \/ CallUpdate
    \/ SaveOpen
    \/ SaveOpenFails
    \/ WriteHeader
    \/ WriteRow
    \/ WriteRowRaises
    \/ WriteFails
    \/ SaveReturn

Spec == Init /\ [][Next]_vars

\* the same functions in any environment
SpecEnv == EnvInit /\ [][Next]_vars

TypeOK ==
    /\ pc \in {"idle", "loop", "open", "header", "rows", "done", "raised"}
    /\ run \in 0..MaxRuns
    /\ saves \in 0..1

\* ------------------------------------------------- derived quantities
LoadErrors == {"FileNotFoundError", "UnicodeDecodeError"}

Over == pc \in {"done", "raised"}

NumCreated(o) == Cardinality({p \in 1..Len(o) : o[p][1] = "CREATE"})

\* the keys fabricated by run r, as indexes into tickets
TicketsOf(r) == {t \in 1..Len(tickets) : tickets[t].run = r}

CreatedAt(r, p) == \E t \in TicketsOf(r) : tickets[t].pos = p

HasTicketId(d) == Truthy(Get(d, JiraTicketID))

\* what a complete write of lst under the fieldnames fn leaves in the file
FullRender(lst, fn) ==
    <<HeaderRow(fn)>> \o [p \in 1..Len(lst) |-> DictToList(lst[p], fn)]

C2_SecondPassCreatesNothing ==
    (pc # "idle" /\ ~(pc = "loop" /\ i <= Len(data))) =>
        /\ NumCreated(Pass(kind, data, 1, <<>>).out) = 0
        /\ (pc = "loop" \/ saves = 1 \/ pc = "done") =>
               \A p \in 1..Len(data) : HasTicketId(data[p])

C2_Witness ==
    /\ pc = "loop"
    /\ i > Len(data)
    /\ NumCreated(out) >= 2

\* ------------------------------------------------------------ C3
\* C3: while a run with dry_run = True is going on, and after it, the file
\* is what it was when the run started.
C3_DryRunPurity ==
    dry_run => (file = file0 /\ fstat = fstat0)

C3_Witness ==
    /\ dry_run
    /\ pc = "done"
    /\ NumCreated(out) >= 1
    /\ data # loaded

\* ------------------------------------------------------------ C4
\* the rows of the loaded list on which the key line raises
CreateFails(k, d) ==
    /\ ~HasTicketId(d)
    /\ BodyError(k, d) \in {"KeyError", "AttributeError"}
    /\ Has(d, TextCol(k))

FailRows == {p \in 1..Len(loaded) : CreateFails(kind, loaded[p])}

\* C4: when fabricating the key fails for exactly one row k, which is not
\* the last, that row keeps an empty JiraTicketID, every other row is still
\* processed (created or skipped), and a run with dry_run = False goes on to
\* write the file.
C4_PartialFailureIsolation ==
    (/\ Over
     /\ err \notin LoadErrors
     /\ Cardinality(FailRows) = 1
     /\ \A p \in 1..Len(loaded) : p \notin FailRows => BodyError(kind, loaded[p]) = ""
     /\ \E k \in FailRows : k < Len(loaded))
    => /\ \A k \in FailRows : ~HasTicketId(data[k])
       /\ \A p \in 1..Len(data) : p \notin FailRows => HasTicketId(data[p])
       /\ Len(out) = Len(data) - 1
       /\ ~dry_run => saves = 1

\* ------------------------------------------------------------ C5
\* C5: in a run with dry_run = False that got past the loop,
\* update_csv_data is called if and only if the run created something.
C5_SaveIffDirty ==
    (~dry_run /\ pc \in {"open", "header", "rows", "done"}) =>
        (saves = 1 <=> NumCreated(out) >= 1)

\* ------------------------------------------------------------ C6
\* C6: a run calls update_csv_data at most once; the file is untouched
\* until that call; and the call comes only when every row has been
\* skipped or created.
C6_SingleWriteAfterLoop ==
    /\ saves <= 1
    /\ saves = 0 => (file = file0 /\ fstat = fstat0)
    /\ saves = 1 => (i > Len(data) /\ Len(out) = Len(data))

C6_Witness ==
    /\ pc = "done"
    /\ saves = 1
    /\ file # file0
    /\ Len(data) >= 2
    /\ NumCreated(out) >= 1

\* ------------------------------------------------------------ C7
\* C7: a run whose file is missing or undecodable ends in the exception of
\* read_csv_data, having fabricated no key, printed no row and left the
\* file as it was.
C7_LoadFailureNoEffect ==
    (pc # "idle" /\ fstat0 # "ok") =>
        /\ pc = "raised"
        /\ err \in LoadErrors
        /\ TicketsOf(run) = {}
        /\ out = <<>>
        /\ saves = 0
        /\ file = file0
        /\ fstat = fstat0

C7_Witness ==
    /\ pc = "raised"
    /\ err = "FileNotFoundError"
    /\ ~dry_run
    /\ fstat = "missing"

\* ------------------------------------------------------------ C8
\* C8: when update_csv_data ends in an exception, the file holds either
\* what it held before the call or the complete new content.
C8_AtomicSave ==
    (pc = "raised" /\ saves = 1) =>
        \/ file = file0
        \/ file = FullRender(data, fieldnames)

\* ------------------------------------------------------------ C9
\* C9: when update_csv_data fails after the run created something, the run
\* does not end in an uncaught exception, update_csv_data is not called
\* again, and the list in memory holds every key the run stamped.
C9_PartialSuccess ==
    (saves >= 1 /\ err # "" /\ NumCreated(out) >= 1) =>
        /\ pc # "raised"
        /\ saves = 1
        /\ \A t \in TicketsOf(run) :
               Get(data[tickets[t].pos], JiraTicketID) = tickets[t].key

\* ------------------------------------------------------------ C10
\* the key ticket t of the previous run stamped is in the list this run
\* loaded, on the same row
Persisted(t) ==
    /\ tickets[t].pos <= Len(loaded)
    /\ Get(loaded[tickets[t].pos], JiraTicketID) = tickets[t].key

\* C10: at the end of a run that follows another, every row the previous
\* run created is skipped if its key reached the file, and is created
\* again if it did not.
C10_RerunAfterReload ==
    (run >= 2 /\ Over) =>
        \A t \in TicketsOf(run - 1) :
            IF Persisted(t)
            THEN ~CreatedAt(run, tickets[t].pos)
            ELSE CreatedAt(run, tickets[t].pos)

\* ------------------------------------------------------------ C11
\* C11: with JIRA_API_TOKEN unset, a run fabricates no key, prints no
\* creation, stamps no row, and prints no skip for a row without a ticket
\* id.
C11_NoCredentialNoCreation ==
    JIRA_API_TOKEN = None =>
        /\ TicketsOf(run) = {}
        /\ NumCreated(out) = 0
        /\ data = loaded
        /\ \A p \in 1..Len(out) : out[p][1] = "SKIP" => HasTicketId(loaded[p])

\* ------------------------------------------------------------ C12
\* C12: when a run that changed no row has written the list back and
\* returned, the file holds the rows it held before: same header, same
\* rows, same cells.
C12_RoundTrip ==
    (pc = "done" /\ saves = 1 /\ data = loaded) => file = file0

\* ------------------------------------------------------------ C13
\* rows d and e have the same keys in the same order and the same value
\* under every key but JiraTicketID
SameButTicket(d, e) ==
    /\ Keys(d) = Keys(e)
    /\ \A q \in 1..Len(d) : d[q][1] # JiraTicketID => d[q] = e[q]

\* files f and g have the same header, as many rows, and in every row the
\* same cells outside the JiraTicketID column
SameFileButTicket(f, g) ==
    /\ Len(f) = Len(g)
    /\ Len(f) > 0 => f[1] = g[1]
    /\ \A p \in 2..Len(f) :
           /\ Len(f[p]) = Len(g[p])
           /\ \A q \in 1..Len(f[p]) :
                  (q <= Len(f[1]) /\ f[1][q] = JiraTicketID) \/ f[p][q] = g[p][q]

\* C13: when a run is over, the list in memory and the file have as many
\* rows as before, in the same order, with the same columns in the same
\* order, and differ from what was loaded in the JiraTicketID column only.
C13_OnlyTicketIdChanges ==
    Over =>
        /\ Len(data) = Len(loaded)
        /\ \A p \in 1..Len(data) : SameButTicket(data[p], loaded[p])
        /\ SameFileButTicket(file0, file)

\* ------------------------------------------------------------ C14
\* C14: the loop takes the rows in order, one message per row taken; no
\* row is given more than one key in a run; and when the run is over every
\* row of the list has its message.
C14_EveryRowOnceInOrder ==
    /\ pc = "loop" => Len(out) = i - 1
    /\ \A t, u \in TicketsOf(run) :
           tickets[t].pos = tickets[u].pos => t = u
    /\ \A t \in TicketsOf(run) :
           /\ tickets[t].pos <= Len(out)
           /\ out[tickets[t].pos] = <<"CREATE", tickets[t].key>>
    /\ (Over /\ err \notin LoadErrors) => Len(out) = Len(loaded)

\* ------------------------------------------------------------ C15
\* C15: a row for which the run fabricated key k had no ticket id when
\* loaded, now carries exactly k, and its message is the creation of k;
\* and when a run with dry_run = False has returned, reading the file
\* again gives k for that row and the id it was loaded with for every
\* skipped row.
C15_CreatedKeyStampedAndPersisted ==
    /\ \A t \in TicketsOf(run) :
           /\ ~HasTicketId(loaded[tickets[t].pos])
           /\ Get(data[tickets[t].pos], JiraTicketID) = tickets[t].key
           /\ out[tickets[t].pos] = <<"CREATE", tickets[t].key>>
    /\ (pc = "done" /\ ~dry_run) =>
           LET again == DictReaderList(file)
           IN  /\ Len(again) = Len(loaded)
               /\ \A t \in TicketsOf(run) :
                      Get(again[tickets[t].pos], JiraTicketID) = tickets[t].key
               /\ \A p \in 1..Len(loaded) :
                      HasTicketId(loaded[p]) =>
                          /\ out[p] = <<"SKIP", Get(loaded[p], JiraTicketID)>>
                          /\ Get(again[p], JiraTicketID)
                                 = Get(loaded[p], JiraTicketID)

C15_Witness ==
    /\ pc = "done"
    /\ ~dry_run
    /\ Len(out) = 2
    /\ out[1] = <<"CREATE", <<"F", "E", "R", "-", "1", "0", "1">>>>
    /\ out[2] = <<"SKIP", FER999>>
    /\ Get(DictReaderList(file)[1], JiraTicketID)
           = <<"F", "E", "R", "-", "1", "0", "1">>

\* ------------------------------------------------------------ C16
\* C16: read_csv_data returns a list only for a file that has a header row
\* and whose rows all have as many cells as the header, and every row of
\* the list has exactly the header's columns as keys.
C16_LoadRejectsMalformed ==
    (pc # "idle" /\ err \notin LoadErrors) =>
        /\ Len(file0) >= 1
        /\ \A p \in 2..Len(file0) : Len(file0[p]) = Len(file0[1])
        /\ \A p \in 1..Len(loaded) : Keys(loaded[p]) = file0[1]

\* ------------------------------------------------------------ C17
\* C17: a row loaded with a non-empty JiraTicketID keeps that value in
\* memory throughout the run, and when the run is over the file read again
\* still holds that row with that value.
C17_TicketIdMonotone ==
    \A p \in 1..Len(loaded) :
        HasTicketId(loaded[p]) =>
            /\ Get(data[p], JiraTicketID) = Get(loaded[p], JiraTicketID)
            /\ Over =>
                   LET again == DictReaderList(file)
                   IN  /\ p <= Len(again)
                       /\ Get(again[p], JiraTicketID)
                              = Get(loaded[p], JiraTicketID)

\* ------------------------------------------------------------ C18
\* C18: when the run before this one wrote the file and returned, this
\* run, once over, has fabricated no key, has printed a skip for every row,
\* and has left the file as it found it.
C18_CommitFixpoint ==
    (prev /\ Over) =>
        /\ TicketsOf(run) = {}
        /\ Len(out) = Len(loaded)
        /\ \A p \in 1..Len(out) : out[p][1] = "SKIP"
        /\ file = file0

\* ------------------------------------------------------------ C19
\* C19: a run with dry_run = False over a file that has a header row and no
\* other row fabricates no key, and once over it has returned without an
\* exception and left the file as it was.
C19_EmptyCollectionCommit ==
    (pc # "idle" /\ ~dry_run /\ fstat0 = "ok" /\ Len(file0) = 1) =>
        /\ TicketsOf(run) = {}
        /\ file = file0
        /\ Over => (pc = "done" /\ err = "")

\* ---------------------------------------------------- the main program
\* __main__ calls sync_epics_to_jira(dry_run=True) and then
\* sync_backlog_to_jira(dry_run=True).  The two sources are taken with the
\* id column first and the ticket column last and with complete rows, on
\* which neither function raises; the state holds the file of the function
\* that is running.
MainHeader(k) == <<IdCol(k), TextCol(k), JiraTicketID>>

MainFiles(k) ==
    {<<MainHeader(k)>> \o rows :
        rows \in UNION {[1..n -> FullRows(MainHeader(k))] : n \in 0..MaxRows}}

MainInit ==
    /\ Init
    /\ kind = "epic"
    /\ fstat = "ok"
    /\ file \in MainFiles("epic")

\* sync_epics_to_jira(dry_run=True)
MainEpics ==
    /\ pc = "idle"
    /\ Run(TRUE)

\* sync_backlog_to_jira(dry_run=True), once the epic sync has returned
MainBacklog ==
    /\ pc = "done"
    /\ kind = "epic"
    /\ kind' = "backlog"
    /\ file' \in MainFiles("backlog")
    /\ fstat' = "ok"
    /\ run' = run + 1
    /\ dry_run' = TRUE
    /\ data' = DictReaderList(file')
    /\ loaded' = data'
    /\ i' = 1
    /\ j' = 1
    /\ fieldnames' = <<>>
    /\ err' = ""
    /\ out' = <<>>
    /\ saves' = 0
    /\ file0' = file'
    /\ fstat0' = fstat'
    /\ pc' = "loop"
    /\ prev' = FALSE
    /\ UNCHANGED <<JIRA_API_TOKEN, tickets>>

MainNext ==
    \/ MainEpics
    \/ MainBacklog
    \/ SkipRow
    \/ CreateRow
    \/ FinishDryRun

SpecMain == MainInit /\ [][MainNext]_vars

\* ------------------------------------------------------------ C20
\* C20: two keys fabricated for different rows, of the same function or
\* one of the epic sync (run 1) and one of the backlog sync (run 2), are
\* different; rows are different when they belong to different functions or
\* have different ids.
C20_KeysUnique ==
    \A t, u \in 1..Len(tickets) :
        (tickets[t].run # tickets[u].run \/ tickets[t].id # tickets[u].id)
            => tickets[t].key # tickets[u].key

====
